---- MODULE Spec2Model ----
(***************************************************************************)
(* DevConsole (src/unnamed/part_001): a React function component with      *)
(* five pieces of state (metrics, activeStep, selectedStep, logs,          *)
(* isAiLoading), two self-rescheduling setTimeout loops started by         *)
(* effects, and one asynchronous handler (handleSync) that awaits the      *)
(* generative-AI client.  src/index.tsx renders it under React.StrictMode. *)
(*                                                                         *)
(* Numbers are fixed point: cpuLoad in 1/1000, flowVel and views in units, *)
(* conversionRate in 1/100; a Math.random() sample r stands for r/1000.    *)
(* Texts are sequences of symbols: a literal of the source is the          *)
(* one-symbol sequence <<literal>>, a response text is a sequence of       *)
(* characters.                                                             *)
(***************************************************************************)
EXTENDS Integers, Sequences, FiniteSets

VARIABLES
    metrics,       \* useState<MetricState>
    activeStep,    \* useState(0)
    selectedStep,  \* useState<WorkflowStep | null>: "none" or a catalog id
    logs,          \* useState<LogEntry[]>
    isAiLoading,   \* useState(false)
    lifecycle,     \* "created" | "strict" | "cleaned" | "mounted" | "unmounted"
    mounts,        \* how many times the effects have been run (the live effect instance)
    timers,        \* pending browser timers: records [id, cb, inst]
    nextTimer,     \* the id the next setTimeout returns
    timeoutId,     \* the `let timeoutId` of each effect closure: [inst][effect]
    clock,         \* Date.now()
    pending,       \* advisor requests awaiting their response (request numbers)
    issued,        \* number of outbound generateContent calls so far
    fault,         \* an exception escaped handleSync
    history,       \* every entry ever put in the log, in append order (with the two boot entries)
    pairs,         \* per request: the history index of its start entry and of its result entry (0: none),
                   \* and the statements handleSync had run when it sent the request
    suppressed,    \* an invocation of handleSync has returned at the guard, since the last request was issued
    lastSettled,   \* the request that settled last and the response it got
    chosen,        \* the catalog index last passed to onSelect (0: none, or cleared since)
    ticks,         \* runs of updateSystem
    rotations      \* runs of nextStep

vars == <<metrics, activeStep, selectedStep, logs, isAiLoading, lifecycle, mounts,
          timers, nextTimer, timeoutId, clock, pending, issued, fault, history,
          pairs, suppressed, lastSettled, chosen, ticks, rotations>>

---------------------------------------------------------------------------
\* Bounds of the model

MaxTicks == 3
MaxRotations == 7
FewRotations == 1
MaxCalls == 2
MaxDeploys == 1
MaxClock == 1
ManyDeploys == 17
LogCalls == 1
MaxMetricTicks == 3

\* Program constants

KeepLast == 15
StepCount == 4
CpuMax == 100000
FlowMin == 100
FlowMax == 2000

\* Math.random() samples, in 1/1000: the least value, and one just under 1.
Rand == {0, 999}
\* A single sample, for the specifications that are not about the metrics.
RandMid == {500}

\* Date.now() when the component is constructed.
BootTimes == {1000}

---------------------------------------------------------------------------
\* Pure helpers

Min(a, b) == IF a < b THEN a ELSE b
Max(a, b) == IF a > b THEN a ELSE b

\* Math.round: to the nearest integer, halves up.  x is in 1/1000.
MathRound(x) == (x + 500) \div 1000

\* Number.prototype.toFixed(2) followed by parseFloat: x in 1/100000, result in 1/100,
\* to the nearest hundredth, halves away from zero.
ToFixed2(x) == IF x >= 0 THEN (x + 500) \div 1000 ELSE -((-x + 500) \div 1000)

Digit(d) == <<"0", "1", "2", "3", "4", "5", "6", "7", "8", "9">>[d + 1]

\* Number.prototype.toString of a non-negative integer: its decimal digits.
RECURSIVE ToString(_)
ToString(n) == IF n < 10 THEN <<Digit(n)>> ELSE ToString(n \div 10) \o <<Digit(n % 10)>>

IsSpace(c) == c \in {" ", "\n"}

RECURSIVE TrimStart(_)
TrimStart(s) == IF s # <<>> /\ IsSpace(Head(s)) THEN TrimStart(Tail(s)) ELSE s

RECURSIVE TrimEnd(_)
TrimEnd(s) == IF s # <<>> /\ IsSpace(s[Len(s)]) THEN TrimEnd(SubSeq(s, 1, Len(s) - 1)) ELSE s

\* String.prototype.trim
Trim(s) == TrimEnd(TrimStart(s))

UpperChar(c) == CASE c = "o" -> "O" [] c = "k" -> "K" [] OTHER -> c

\* String.prototype.toUpperCase
ToUpperCase(s) == [i \in 1..Len(s) |-> UpperChar(s[i])]

\* Array.prototype.slice(-n): the last n elements, all of them when there are fewer.
SliceLast(s, n) == SubSeq(s, Max(Len(s) - n, 0) + 1, Len(s))

Lit(w) == <<w>>

Entry(id, text, type) == [id |-> id, text |-> text, type |-> type]

\* workflowSteps: the ids of the catalog, in order.
workflowSteps == <<"ideate", "create", "optimize", "publish">>

---------------------------------------------------------------------------
\* A useState setter.  React drops an update dispatched to a component that has been
\* unmounted: the state of the console stays as the teardown left it.
SetState(cur, new) == IF lifecycle = "unmounted" THEN cur ELSE new

\* Faulty variants of addLog: one keeps 16 old entries, one puts the new entry first.
addLogKeepsOneMore(prev, text, type) == Append(SliceLast(prev, KeepLast + 1), Entry(ToString(clock), text, type))
addLogPrepends(prev, text, type) == <<Entry(ToString(clock), text, type)>> \o SliceLast(prev, KeepLast)
\* addLog's updater: prev => [...prev.slice(-15), {id: Date.now().toString(), text, type}]
addLog(prev, text, type) == Append(SliceLast(prev, KeepLast), Entry(ToString(clock), text, type))

\* The log and its history after a call of addLog(text, type).
AddLog(text, type) ==
    /\ logs' = SetState(logs, addLog(logs, text, type))
    /\ history' = IF lifecycle = "unmounted" THEN history
                  ELSE Append(history, Entry(ToString(clock), text, type))

---------------------------------------------------------------------------
\* updateSystem's setMetrics updater, with the four Math.random() samples.

\* Faulty variant: Math.max(0, ...) left out.
clampCpuNoFloor(x) == Min(CpuMax, x)
\* Math.min(100, Math.max(0, x))
clampCpu(x) == Min(CpuMax, Max(0, x))

\* Math.min(2000, Math.max(100, x))
clampFlow(x) == Min(FlowMax * 1000, Max(FlowMin * 1000, x))

\* Faulty variant: the sample centred like the other three, Math.floor((Math.random() - 0.5) * 8).
viewsStepCentred(r) == ((r - 500) * 8) \div 1000
\* Math.floor(Math.random() * 8)
viewsStep(r) == (r * 8) \div 1000

tickMetrics(prev, r1, r2, r3, r4) ==
    [ cpuLoad |-> clampCpu(prev.cpuLoad + (r1 - 500) * 4),
      flowVel |-> MathRound(clampFlow(prev.flowVel * 1000 + (r2 - 500) * 80)),
      views |-> prev.views + viewsStep(r3),
      conversionRate |-> ToFixed2(prev.conversionRate * 1000 + (r4 - 500) * 15) ]

\* setTimeout(cb, ...) called from effect instance inst: a new pending timer.
SetTimeout(cb, inst) == [id |-> nextTimer, cb |-> cb, inst |-> inst]

\* clearTimeout(id): the timer with that id, if any, is no longer pending.
ClearTimeout(ts, id) == {t \in ts : t.id # id}

InitialMetrics == [cpuLoad |-> 42800, flowVel |-> 892, views |-> 14284, conversionRate |-> 420]

InitialLogs == << Entry(<<"1">>, Lit("SYSTEM_BOOT_COMPLETE"), "info"),
                  Entry(<<"2">>, Lit("LISTENING_FOR_INPUT..."), "info") >>

NoTimer == 0

\* No response yet.
NoResponse == [kind |-> "none", hasText |-> FALSE, text |-> <<>>]

Init ==
    /\ metrics = InitialMetrics
    /\ activeStep = 0
    /\ selectedStep = "none"
    /\ logs = InitialLogs
    /\ isAiLoading = FALSE
    /\ lifecycle = "created"
    /\ mounts = 0
    /\ timers = {}
    /\ nextTimer = 1
    /\ timeoutId = [i \in 1..2 |-> [metrics |-> NoTimer, rotator |-> NoTimer]]
    /\ clock \in BootTimes
    /\ pending = {}
    /\ issued = 0
    /\ fault = FALSE
    /\ history = InitialLogs
    /\ pairs = <<>>
    /\ suppressed = FALSE
    /\ lastSettled = [req |-> 0, resp |-> NoResponse]
    /\ chosen = 0
    /\ ticks = 0
    /\ rotations = 0

---------------------------------------------------------------------------
\* The effects (lines 156-185) and their cleanups.

\* Faulty variant: the callback calls setTimeout without storing the id.
rescheduledIdDropped(old, new) == old
\* `timeoutId = setTimeout(...)` inside a callback: the closure variable takes the new id.
rescheduledId(old, new) == new

\* One run of updateSystem's setMetrics, its samples drawn from R.
RunUpdateSystem(R) ==
    /\ \E r1 \in R, r2 \in R, r3 \in R, r4 \in R :
          metrics' = SetState(metrics, tickMetrics(metrics, r1, r2, r3, r4))
    /\ ticks' = ticks + 1

\* Both effects run: updateSystem() is called at once and schedules itself,
\* the rotator schedules its first nextStep.  Under StrictMode's development
\* double invocation the first run is followed by the cleanups and a second run.
MountEffects(R) ==
    /\ lifecycle \in {"created", "cleaned"}
    /\ LET inst == mounts + 1
           tm == SetTimeout("updateSystem", inst)
           tr == [SetTimeout("nextStep", inst) EXCEPT !.id = nextTimer + 1]
       IN  /\ mounts' = inst
           /\ timers' = timers \cup {tm, tr}
           /\ nextTimer' = nextTimer + 2
           /\ timeoutId' = [timeoutId EXCEPT ![inst] = [metrics |-> tm.id, rotator |-> tr.id]]
    /\ RunUpdateSystem(R)
    /\ lifecycle' \in (IF lifecycle = "created" THEN {"strict", "mounted"} ELSE {"mounted"})
    /\ UNCHANGED <<activeStep, selectedStep, logs, isAiLoading, clock, pending, issued,
                   fault, history, pairs, suppressed, rotations, chosen, lastSettled>>

\* The two cleanups of the live effect instance: clearTimeout(timeoutId) each.
cleanup(ts, inst) == ClearTimeout(ClearTimeout(ts, timeoutId[inst].metrics), timeoutId[inst].rotator)

\* StrictMode's simulated unmount right after the first run of the effects.
StrictCleanup ==
    /\ lifecycle = "strict"
    /\ timers' = cleanup(timers, mounts)
    /\ lifecycle' = "cleaned"
    /\ UNCHANGED <<metrics, activeStep, selectedStep, logs, isAiLoading, mounts, nextTimer,
                   timeoutId, clock, pending, issued, fault, history, pairs, suppressed,
                   ticks, rotations, chosen, lastSettled>>

\* Teardown of the console.
Unmount ==
    /\ lifecycle = "mounted"
    /\ timers' = cleanup(timers, mounts)
    /\ lifecycle' = "unmounted"
    /\ UNCHANGED <<metrics, activeStep, selectedStep, logs, isAiLoading, mounts, nextTimer,
                   timeoutId, clock, pending, issued, fault, history, pairs, suppressed,
                   ticks, rotations, chosen, lastSettled>>

\* A pending updateSystem timer fires: the tick, then the next timer.
FireUpdateSystem(R, maxTicks) ==
    /\ lifecycle \in {"mounted", "unmounted"}
    /\ ticks < maxTicks
    /\ \E t \in timers :
          /\ t.cb = "updateSystem"
          /\ timers' = (timers \ {t}) \cup {SetTimeout("updateSystem", t.inst)}
          /\ timeoutId' = [timeoutId EXCEPT ![t.inst].metrics = rescheduledId(@, nextTimer)]
    /\ nextTimer' = nextTimer + 1
    /\ RunUpdateSystem(R)
    /\ UNCHANGED <<activeStep, selectedStep, logs, isAiLoading, lifecycle, mounts, clock,
                   pending, issued, fault, history, pairs, suppressed, rotations, chosen, lastSettled>>

\* Faulty variant: a step of two.
advanceByTwo(prev) == (prev + 2) % StepCount
\* nextStep's updater: prev => (prev + 1) % 4
advance(prev) == (prev + 1) % StepCount

\* A pending nextStep timer fires: the rotation, then the next timer.
FireNextStep(maxRotations) ==
    /\ lifecycle \in {"mounted", "unmounted"}
    /\ rotations < maxRotations
    /\ \E t \in timers :
          /\ t.cb = "nextStep"
          /\ timers' = (timers \ {t}) \cup {SetTimeout("nextStep", t.inst)}
          /\ timeoutId' = [timeoutId EXCEPT ![t.inst].rotator = rescheduledId(@, nextTimer)]
    /\ nextTimer' = nextTimer + 1
    /\ activeStep' = SetState(activeStep, advance(activeStep))
    /\ rotations' = rotations + 1
    /\ UNCHANGED <<metrics, selectedStep, logs, isAiLoading, lifecycle, mounts, clock,
                   pending, issued, fault, history, pairs, suppressed, ticks, chosen, lastSettled>>

---------------------------------------------------------------------------
\* User events: they reach the component only while it is mounted.

\* Faulty variant: every item selects the first step.
selectFirst(i) == workflowSteps[1]
\* WorkflowItem's onClick: onSelect(step) with onSelect = setSelectedStep.
select(i) == workflowSteps[i]

SelectStep ==
    /\ lifecycle = "mounted"
    /\ \E i \in 1..StepCount :
          /\ selectedStep' = SetState(selectedStep, select(i))
          /\ chosen' = i
    /\ UNCHANGED <<metrics, activeStep, logs, isAiLoading, lifecycle, mounts, timers,
                   nextTimer, timeoutId, clock, pending, issued, fault, history, pairs,
                   suppressed, ticks, rotations, lastSettled>>

\* The details overlay (rendered while a step is selected): setSelectedStep(null).
ClearSelection ==
    /\ lifecycle = "mounted"
    /\ selectedStep # "none"
    /\ selectedStep' = SetState(selectedStep, "none")
    /\ chosen' = 0
    /\ UNCHANGED <<metrics, activeStep, logs, isAiLoading, lifecycle, mounts, timers,
                   nextTimer, timeoutId, clock, pending, issued, fault, history, pairs,
                   suppressed, ticks, rotations, lastSettled>>

DeployText == Lit("INITIATING_CAMPAIGN_SEQUENCE...")

Deploys == Cardinality({i \in DOMAIN history : history[i].text = DeployText})

\* DEPLOY_CORE: addLog('INITIATING_CAMPAIGN_SEQUENCE...', 'info')
Deploy(maxDeploys) ==
    /\ lifecycle = "mounted"
    /\ Deploys < maxDeploys
    /\ AddLog(DeployText, "info")
    /\ UNCHANGED <<metrics, activeStep, selectedStep, isAiLoading, lifecycle, mounts,
                   timers, nextTimer, timeoutId, clock, pending, issued, fault, pairs,
                   suppressed, ticks, rotations, chosen, lastSettled>>

\* Date.now() moves on between two events.
Tock ==
    /\ \E b \in BootTimes : clock < b + MaxClock
    /\ clock' = clock + 1
    /\ UNCHANGED <<metrics, activeStep, selectedStep, logs, isAiLoading, lifecycle, mounts,
                   timers, nextTimer, timeoutId, pending, issued, fault, history, pairs,
                   suppressed, ticks, rotations, chosen, lastSettled>>

---------------------------------------------------------------------------
\* handleSync (lines 187-204)

\* What generateContent can come back with: a rejection (network error, timeout,
\* a response the client cannot parse), a response without text, a response with text.
ResponseTexts == { <<>>, <<" ">>, <<" ", "o", "k", "\n">> }

Responses == {[kind |-> "reject", hasText |-> FALSE, text |-> <<>>],
              [kind |-> "resolve", hasText |-> FALSE, text |-> <<>>]}
             \cup {[kind |-> "resolve", hasText |-> TRUE, text |-> t] : t \in ResponseTexts}

\* A rejection and a text, for the specifications that are not about the responses.
FewResponses == {[kind |-> "reject", hasText |-> FALSE, text |-> <<>>],
                 [kind |-> "resolve", hasText |-> TRUE, text |-> <<" ", "o", "k", "\n">>]}

\* Faulty variant: no guard.
guardOff == FALSE
\* `if (isAiLoading) return;`  The handler an event reaches is the one of the last
\* commit, and React commits the updates of a click before the next event is handled,
\* so the isAiLoading the guard reads is the current one.
guard == isAiLoading

\* response.text?.trim().toUpperCase() || 'INSIGHT_FETCH_TIMEOUT'
insightOf(resp) ==
    LET t == IF resp.hasText THEN ToUpperCase(Trim(resp.text)) ELSE <<>>
    IN  IF t = <<>> THEN Lit("INSIGHT_FETCH_TIMEOUT") ELSE t

\* Faulty variants: no catch; a catch that logs the insight fallback.
settleUncaught(resp) ==
    IF resp.kind = "reject"
    THEN [logged |-> FALSE, text |-> <<>>, type |-> "error", thrown |-> TRUE]
    ELSE [logged |-> TRUE, text |-> insightOf(resp), type |-> "ai", thrown |-> FALSE]
settleAsInsight(resp) ==
    IF resp.kind = "reject"
    THEN [logged |-> TRUE, text |-> Lit("INSIGHT_FETCH_TIMEOUT"), type |-> "ai", thrown |-> FALSE]
    ELSE [logged |-> TRUE, text |-> insightOf(resp), type |-> "ai", thrown |-> FALSE]
\* The try/catch: the entry logged for a response, and whether anything is thrown on.
settle(resp) ==
    IF resp.kind = "reject"
    THEN [logged |-> TRUE, text |-> Lit("AI_GATEWAY_TIMEOUT"), type |-> "error", thrown |-> FALSE]
    ELSE [logged |-> TRUE, text |-> insightOf(resp), type |-> "ai", thrown |-> FALSE]

RequestText == Lit("REQUESTING_AI_INSIGHT...")

\* Faulty variant: the request sent before the flag is raised and the entry logged.
handleSyncRequestFirst == <<"generateContent", "setIsAiLoading", "addLog">>
\* The statements handleSync runs once past its guard, in the order of the source.
handleSyncBody == <<"setIsAiLoading", "addLog", "generateContent">>

\* The statements handleSync has run when it reaches stmt.
RunBefore(stmt) ==
    LET k == CHOOSE i \in DOMAIN handleSyncBody : handleSyncBody[i] = stmt
    IN  {handleSyncBody[j] : j \in 1..(k - 1)}

\* An invocation of handleSync, up to its await.
HandleSync(maxCalls) ==
    /\ lifecycle = "mounted"
    /\ IF guard
       THEN /\ suppressed' = TRUE
            /\ UNCHANGED <<logs, isAiLoading, pending, issued, history, pairs>>
       ELSE /\ issued < maxCalls
            /\ isAiLoading' = SetState(isAiLoading, TRUE)
            /\ AddLog(RequestText, "ai")
            /\ issued' = issued + 1
            /\ pending' = pending \cup {issued + 1}
            /\ pairs' = Append(pairs, [start |-> Len(history) + 1, result |-> 0,
                                       before |-> RunBefore("generateContent")])
            /\ suppressed' = FALSE
    /\ UNCHANGED <<metrics, activeStep, selectedStep, lifecycle, mounts, timers, nextTimer,
                   timeoutId, clock, fault, lastSettled, chosen, ticks, rotations>>

\* Faulty variant: no finally, the flag is left as it was.
afterSettleKept(flag) == flag
\* finally { setIsAiLoading(false) }
afterSettle(flag) == FALSE

\* The awaited request settles and handleSync runs on: try or catch, then finally.
Settle(responses) ==
    /\ lifecycle \in {"mounted", "unmounted"}
    /\ \E req \in pending, resp \in responses :
          LET out == settle(resp)
          IN  /\ IF out.logged
                 THEN AddLog(out.text, out.type)
                 ELSE UNCHANGED <<logs, history>>
              /\ fault' = (fault \/ out.thrown)
              /\ pending' = pending \ {req}
              /\ pairs' = [pairs EXCEPT ![req].result =
                              IF out.logged /\ lifecycle # "unmounted"
                              THEN Len(history) + 1 ELSE 0]
              /\ lastSettled' = [req |-> req, resp |-> resp]
    /\ isAiLoading' = SetState(isAiLoading, afterSettle(isAiLoading))
    /\ UNCHANGED <<metrics, activeStep, selectedStep, lifecycle, mounts, timers, nextTimer,
                   timeoutId, clock, issued, suppressed, ticks, rotations, chosen>>

---------------------------------------------------------------------------
\* The console: every event.  The timers tick with a single sample and the
\* rotator runs a short way; SpecMetrics and SpecRotator take them further.
Next ==
    \/ MountEffects(RandMid)
    \/ StrictCleanup
    \/ Unmount
    \/ FireUpdateSystem(RandMid, MaxTicks)
    \/ FireNextStep(FewRotations)
    \/ Deploy(MaxDeploys)
    \/ HandleSync(MaxCalls)
    \/ Settle(Responses)

Spec == Init /\ [][Next]_vars

\* The log over a long run of appends.
NextLog ==
    \/ MountEffects(RandMid)
    \/ StrictCleanup
    \/ Deploy(ManyDeploys)
    \/ HandleSync(LogCalls)
    \/ Settle(FewResponses)

SpecLog == Init /\ [][NextLog]_vars

\* The rotator over more than a full cycle, with the selection of steps.
NextRotator ==
    \/ MountEffects(RandMid)
    \/ StrictCleanup
    \/ Unmount
    \/ FireUpdateSystem(RandMid, MaxTicks)
    \/ FireNextStep(MaxRotations)
    \/ SelectStep
    \/ ClearSelection
    \/ HandleSync(LogCalls)
    \/ Settle(FewResponses)

SpecRotator == Init /\ [][NextRotator]_vars

\* The metrics: a mounted console whose metrics are anywhere in their ranges.
CpuInputs == {0, 1000, 42800, 99000, CpuMax}
FlowInputs == {FlowMin, 120, 892, 1980, FlowMax}

InitMetrics ==
    /\ metrics \in {[InitialMetrics EXCEPT !.cpuLoad = c, !.flowVel = f] :
                       c \in CpuInputs, f \in FlowInputs}
    /\ activeStep = 0
    /\ selectedStep = "none"
    /\ logs = InitialLogs
    /\ isAiLoading = FALSE
    /\ lifecycle = "mounted"
    /\ mounts = 1
    /\ timers = {[id |-> 1, cb |-> "updateSystem", inst |-> 1],
                 [id |-> 2, cb |-> "nextStep", inst |-> 1]}
    /\ nextTimer = 3
    /\ timeoutId = [i \in 1..2 |-> IF i = 1 THEN [metrics |-> 1, rotator |-> 2]
                                    ELSE [metrics |-> NoTimer, rotator |-> NoTimer]]
    /\ clock \in BootTimes
    /\ pending = {}
    /\ issued = 0
    /\ fault = FALSE
    /\ history = InitialLogs
    /\ pairs = <<>>
    /\ suppressed = FALSE
    /\ lastSettled = [req |-> 0, resp |-> NoResponse]
    /\ chosen = 0
    /\ ticks = 1
    /\ rotations = 0

NextMetrics ==
    \/ FireUpdateSystem(Rand, MaxMetricTicks)
    \/ FireNextStep(FewRotations)
    \/ SelectStep
    \/ ClearSelection
    \/ Unmount

SpecMetrics == InitMetrics /\ [][NextMetrics]_vars

\* The identifiers of the entries: appends as Date.now() moves on.
NextIds ==
    \/ MountEffects(RandMid)
    \/ StrictCleanup
    \/ Deploy(MaxDeploys)
    \/ HandleSync(LogCalls)
    \/ Settle(FewResponses)
    \/ Tock

SpecIds == Init /\ [][NextIds]_vars

\* The advisor alone, every request coming back: generateContent's promise
\* resolves or rejects, and the continuation of handleSync then runs.
NextAdvisor ==
    \/ MountEffects(RandMid)
    \/ StrictCleanup
    \/ Unmount
    \/ Deploy(MaxDeploys)
    \/ HandleSync(MaxCalls)
    \/ Settle(Responses)

SpecAdvisor == Init /\ [][NextAdvisor]_vars /\ WF_vars(Settle(Responses))

---------------------------------------------------------------------------
\* Properties

\* The last n elements of h, in order (all of h when it has fewer).
LastOf(h, n) ==
    LET k == IF Len(h) < n THEN Len(h) ELSE n
    IN  [i \in 1..k |-> h[Len(h) - k + i]]

BootTexts == {Lit("SYSTEM_BOOT_COMPLETE"), Lit("LISTENING_FOR_INPUT...")}

\* The request-start entries and the result (or fallback) entries ever appended.
RequestEntries(h) == {i \in DOMAIN h : h[i].text = Lit("REQUESTING_AI_INSIGHT...")}
ResultEntries(h) ==
    {i \in DOMAIN h : h[i].text \notin BootTexts \cup {Lit("REQUESTING_AI_INSIGHT..."),
                                                      Lit("INITIATING_CAMPAIGN_SEQUENCE...")}}

\* C1: while a request is in flight at most one is outstanding and a further
\* invocation of handleSync issues no request, appends no entry and changes no
\* state; every outbound request has exactly one request-start entry and, once
\* it has settled in the mounted console, exactly one result entry.
C1_SingleFlight ==
    /\ [](/\ Cardinality(pending) <= 1
          /\ Cardinality(RequestEntries(history)) = issued
          /\ Cardinality(ResultEntries(history)) + Cardinality(pending) <= issued
          /\ lifecycle = "mounted" =>
                Cardinality(ResultEntries(history)) + Cardinality(pending) = issued)
    /\ [][pending # {} =>
            /\ issued' = issued
            /\ RequestEntries(history') = RequestEntries(history)
            /\ (suppressed' /\ ~suppressed) =>
                  UNCHANGED <<metrics, activeStep, selectedStep, logs, isAiLoading, lifecycle,
                              timers, pending, issued, fault, history>>]_vars

\* C1 witness: a second invocation came while the only request was in flight,
\* and the request has settled: one request, one start entry, one result entry.
C1_Witness ==
    /\ suppressed /\ pending = {} /\ issued = 1 /\ lifecycle = "mounted"
    /\ Cardinality(RequestEntries(history)) = 1
    /\ Cardinality(ResultEntries(history)) = 1

\* C2: the log never holds more than 16 entries and always equals the last 16
\* entries appended (all of them while there are fewer), oldest first.
C2_LogIsLast16 ==
    /\ Len(logs) <= 16
    /\ logs = LastOf(history, 16)

\* C2 witness: more than 16 entries have been appended after the boot entries,
\* a request's entries among them, and the log is full.
C2_Witness ==
    /\ Len(history) > Len(InitialLogs) + 16
    /\ Len(logs) = 16
    /\ RequestEntries(logs) # {}
    /\ ResultEntries(logs) # {}

\* The entry appended for the request that settled last (defined when there is one).
SettledEntry == history[pairs[lastSettled.req].result]
HasSettledEntry == lastSettled.req # 0 /\ pairs[lastSettled.req].result # 0

IsBlank(text) == \A i \in DOMAIN text : text[i] \in {" ", "\n"}

\* C3 as stated: for every kind of failure (a rejected request, a response
\* without text, a response whose text is empty) the entry appended is exactly
\* AI_GATEWAY_TIMEOUT with kind error, and nothing is thrown on.
C3_Original ==
    /\ ~fault
    /\ ( /\ HasSettledEntry
         /\ \/ lastSettled.resp.kind = "reject"
            \/ ~lastSettled.resp.hasText
            \/ lastSettled.resp.text = <<>> )
       => /\ SettledEntry.text = <<"AI_GATEWAY_TIMEOUT">>
          /\ SettledEntry.type = "error"

\* C3 as amended: a rejected request appends exactly AI_GATEWAY_TIMEOUT with
\* kind error; a response whose text is missing, empty or only whitespace
\* appends exactly INSIGHT_FETCH_TIMEOUT with kind ai; nothing is thrown on.
C3_Fallbacks ==
    /\ ~fault
    /\ (HasSettledEntry /\ lastSettled.resp.kind = "reject")
       => /\ SettledEntry.text = <<"AI_GATEWAY_TIMEOUT">>
          /\ SettledEntry.type = "error"
    /\ ( /\ HasSettledEntry
         /\ lastSettled.resp.kind = "resolve"
         /\ (~lastSettled.resp.hasText \/ IsBlank(lastSettled.resp.text)) )
       => /\ SettledEntry.text = <<"INSIGHT_FETCH_TIMEOUT">>
          /\ SettledEntry.type = "ai"

\* C3 witness: a rejected request has had its entry appended, after an earlier
\* request came back with an empty text.
C3_Witness ==
    /\ HasSettledEntry
    /\ lastSettled.req = 2
    /\ lastSettled.resp.kind = "reject"
    /\ pairs[1].result # 0
    /\ history[pairs[1].result].text = <<"INSIGHT_FETCH_TIMEOUT">>

\* C4: the log lists its entries in the order they were appended (it is a
\* contiguous run of the history, oldest first), and every request's start
\* entry comes before its result entry, in the history and in the log.
C4_Order ==
    LET off == Len(history) - Len(logs)
    IN  /\ off >= 0
        /\ \A k \in DOMAIN logs : logs[k] = history[off + k]
        /\ \A r \in DOMAIN pairs :
              /\ history[pairs[r].start].text = <<"REQUESTING_AI_INSIGHT...">>
              /\ pairs[r].result # 0 =>
                    /\ pairs[r].start < pairs[r].result
                    /\ pairs[r].result \in ResultEntries(history)
                    /\ pairs[r].start > off =>
                          /\ logs[pairs[r].start - off].text = <<"REQUESTING_AI_INSIGHT...">>
                          /\ logs[pairs[r].result - off] = history[pairs[r].result]

\* C4 witness: a request has its result in the log with another entry appended
\* between its start and its result, and the timers have fired.
C4_Witness ==
    /\ \E r \in DOMAIN pairs : pairs[r].result > pairs[r].start + 1
    /\ rotations >= 1
    /\ ticks >= 3

\* C5: no pending timer belongs to an effect instance that has been torn down
\* (so none of its callbacks runs again), and while the console is torn down
\* neither updateSystem nor nextStep runs and metrics and activeStep stay as
\* they are, also across StrictMode's teardown and restart.
C5_NoTimerAfterTeardown ==
    /\ [](\A t \in timers : t.inst = mounts /\ lifecycle \in {"strict", "mounted"})
    /\ [][(lifecycle \in {"cleaned", "unmounted"} /\ lifecycle' = lifecycle) =>
            /\ metrics' = metrics
            /\ activeStep' = activeStep
            /\ ticks' = ticks
            /\ rotations' = rotations]_vars

\* C5 witness: the console was restarted after StrictMode's teardown, both
\* loops rescheduled themselves, and the console was then torn down.
C5_Witness ==
    /\ lifecycle = "unmounted"
    /\ mounts = 2
    /\ ticks >= 3
    /\ rotations >= 1
    /\ timers = {}

\* C6: once the console is torn down, a request that settles (with a response
\* or an error) appends nothing, changes no state of the console and throws
\* nothing.
C6_IgnoredAfterTeardown ==
    /\ [](lifecycle = "unmounted" => ~fault)
    /\ [][lifecycle = "unmounted" =>
            UNCHANGED <<logs, history, metrics, activeStep, selectedStep, isAiLoading>>]_vars

\* C6 witness: the console was torn down with a request in flight and the
\* request has since been rejected.
C6_Witness ==
    /\ lifecycle = "unmounted"
    /\ pending = {}
    /\ lastSettled.req # 0
    /\ lastSettled.resp.kind = "reject"
    /\ pairs[lastSettled.req].result = 0
    /\ isAiLoading

\* C7: cpuLoad stays within [0, 100] and flowVel within [100, 2000].
C7_MetricsInRange ==
    /\ 0 <= metrics.cpuLoad /\ metrics.cpuLoad <= 100 * 1000
    /\ 100 <= metrics.flowVel /\ metrics.flowVel <= 2000

\* C7 witness: after ticks, cpuLoad sits at its floor and flowVel at its ceiling.
C7_Witness ==
    /\ ticks >= 2
    /\ metrics.cpuLoad = 0
    /\ metrics.flowVel = 2000

\* C8: views is never below 14284, every step leaves it or adds an integer in
\* [0, 7] to it, and only a tick changes it.
C8_ViewsMonotone ==
    /\ [](metrics.views >= 14284)
    /\ [][/\ metrics'.views - metrics.views \in 0..7
          /\ ticks' = ticks => metrics'.views = metrics.views]_vars

\* C8 witness: two ticks have each added 7 to views.
C8_Witness ==
    /\ ticks >= 3
    /\ metrics.views = 14284 + 14

\* C9: activeStep is in 0..3, every run of nextStep takes it from i to
\* (i + 1) mod 4, so it is the number of rotations mod 4 and comes back after
\* exactly 4 advances from any index; a mounted console always has the next
\* rotation pending.
C9_Cycle ==
    /\ [](/\ activeStep \in 0..3
          /\ activeStep = rotations % 4
          /\ lifecycle = "mounted" => \E t \in timers : t.cb = "nextStep"
          /\ \A i \in 0..3 : /\ advance(advance(advance(advance(i)))) = i
                             /\ advance(i) # i
                             /\ advance(advance(i)) # i
                             /\ advance(advance(advance(i))) # i)
    /\ [][rotations' # rotations => activeStep' = (activeStep + 1) % 4]_vars

\* C9 witness: after 5 rotations the index has gone round once and is at 1.
C9_Witness ==
    /\ rotations = 5
    /\ activeStep = 1
    /\ lifecycle = "mounted"

\* C10: the selected step is exactly the catalog entry last chosen, or none
\* once cleared; a change of selection leaves activeStep, metrics, the log and
\* the in-flight flag alone; a rotation advances activeStep and leaves the
\* selection alone, and stays pending while a step is selected.
C10_SelectionFrame ==
    /\ [](/\ selectedStep = (IF chosen = 0 THEN "none"
                             ELSE <<"ideate", "create", "optimize", "publish">>[chosen])
          /\ (lifecycle = "mounted" /\ selectedStep # "none") =>
                \E t \in timers : t.cb = "nextStep")
    /\ [][/\ selectedStep' # selectedStep =>
                UNCHANGED <<activeStep, metrics, logs, isAiLoading, timers>>
          /\ rotations' # rotations =>
                /\ selectedStep' = selectedStep
                /\ activeStep' = (activeStep + 1) % 4]_vars

\* C10 witness: "create" is selected, the rotator has advanced twice and a
\* request is in flight.
C10_Witness ==
    /\ selectedStep = "create"
    /\ chosen = 2
    /\ activeStep = 2
    /\ isAiLoading
    /\ lifecycle = "mounted"

\* C11: the entries that are in the log together have pairwise distinct ids,
\* the boot entries and the entries of requests and of user actions alike.
C11_DistinctIds ==
    \A i \in DOMAIN logs : \A j \in DOMAIN logs : i # j => logs[i].id # logs[j].id

\* What the claim says of the requests sent so far, for a kind of the start
\* entry: each has its start entry, REQUESTING_AI_INSIGHT... of that kind, and
\* handleSync had raised the flag and logged the entry when it called
\* generateContent; the flag is up while a request is in flight.
RequestsStarted(kind) ==
    /\ \A r \in DOMAIN pairs :
          /\ history[pairs[r].start].text = <<"REQUESTING_AI_INSIGHT...">>
          /\ history[pairs[r].start].type = kind
          /\ pairs[r].before = {"setIsAiLoading", "addLog"}
    /\ pending # {} => isAiLoading

\* What the claim says of the step that sends a request: it finds no request in
\* flight, appends one entry, the start entry of that kind, as the last of the
\* log, and leaves the flag up.
RequestStep(kind) ==
    issued' # issued =>
       /\ ~isAiLoading /\ pending = {}
       /\ isAiLoading'
       /\ pending' = {issued'}
       /\ Len(history') = Len(history) + 1
       /\ logs'[Len(logs')] = history'[Len(history')]
       /\ logs'[Len(logs')].text = <<"REQUESTING_AI_INSIGHT...">>
       /\ logs'[Len(logs')].type = kind

\* C12 as stated: an invocation of handleSync with no request in flight appends
\* the entry REQUESTING_AI_INSIGHT... with kind info and raises isAiLoading
\* before the request is sent.
C12_Original == [](RequestsStarted("info")) /\ [][RequestStep("info")]_vars

\* C12 as amended: an invocation of handleSync with no request in flight appends
\* the entry REQUESTING_AI_INSIGHT... with kind ai and raises isAiLoading
\* before the request is sent.
C12_RequestStart == [](RequestsStarted("ai")) /\ [][RequestStep("ai")]_vars

\* C12 witness: after a user action and a first request that has settled, a
\* second invocation was accepted: its start entry is the last of the log, the
\* flag is up and the request is in flight.
C12_Witness ==
    /\ lifecycle = "mounted"
    /\ pending = {2}
    /\ isAiLoading
    /\ pairs[1].result # 0
    /\ pairs[2].start = Len(history)
    /\ logs[Len(logs)].text = <<"REQUESTING_AI_INSIGHT...">>
    /\ logs[Len(logs)].type = "ai"
    /\ Deploys = 1

\* The step in which a request settles in the mounted console.
Settles == pending' # pending /\ issued' = issued /\ lifecycle = "mounted"

\* An invocation of handleSync that is accepted and sends a request.
Accepted == HandleSync(MaxCalls) /\ issued' = issued + 1

\* C13: in the mounted console, every request that was sent and comes back,
\* with a text, without one or with an error, gets exactly one result or
\* fallback entry and the flag is lowered with it; the settling sends no
\* request, each request sent has its own start entry, and once the flag is
\* down an invocation of handleSync is accepted and sends a new request.
C13_SettleOnce ==
    /\ [](lifecycle = "mounted" =>
            /\ \A r \in DOMAIN pairs :
                  r \notin pending => pairs[r].result \in ResultEntries(history)
            /\ \A r \in DOMAIN pairs : \A q \in DOMAIN pairs :
                  (r # q /\ r \notin pending /\ q \notin pending) =>
                      pairs[r].result # pairs[q].result
            /\ Cardinality(ResultEntries(history)) = issued - Cardinality(pending)
            /\ Cardinality(RequestEntries(history)) = issued
            /\ pending = {} => ~isAiLoading
            /\ (~isAiLoading /\ issued < MaxCalls) => ENABLED Accepted)
    /\ [][Settles =>
            /\ Len(history') = Len(history) + 1
            /\ pairs'[lastSettled'.req].result = Len(history')
            /\ history'[Len(history')] = logs'[Len(logs')]
            /\ ~isAiLoading'
            /\ pending' = {}]_vars
    /\ (pending # {}) ~> (pending = {})
    /\ (pending # {} /\ lifecycle = "mounted") ~> (~isAiLoading \/ lifecycle = "unmounted")

\* C13 witness: the first request was rejected and the second came back with a
\* text; each has its one entry, the flag is down and no request is in flight.
C13_Witness ==
    /\ lifecycle = "mounted"
    /\ issued = 2 /\ pending = {}
    /\ ~isAiLoading
    /\ history[pairs[1].result].type = "error"
    /\ history[pairs[2].result].text = <<"O", "K">>
    /\ Cardinality(ResultEntries(history)) = 2

====
